---- MODULE Spec2Model ----
(***************************************************************************)
(* top_tracks_cli (src/top_tracks_cli/main.go): OAuth loopback handshake,  *)
(* discovery/creation of the three "Favorite * Term Tracks" playlists,     *)
(* purge, and three concurrent fetch-then-fill goroutines joined by a      *)
(* sync.WaitGroup.  The remote service is the environment: every remote    *)
(* call either succeeds with the effect the API documents or fails.        *)
(***************************************************************************)
EXTENDS Integers, Sequences, FiniteSets, TLC

\* ------------------------------------------------------------------ bounds
\* most playlists the user owns when the run starts
MaxPlaylists == 3
\* tracks on a top-tracks page
MaxTracks == 2
\* most sleeps of one backoff.Retry before the elapsed-time limit is surely hit
MaxRetries == 1
\* OAuth redirect requests that reach /callback during one run
MaxCallbacks == 2
\* most words of a playlist name whose matching is checked exhaustively
MaxWords == 4

\* ------------------------------------------------------- names and regexes
\* A playlist name is the sequence of its space-separated words.
ShortName == <<"Favorite", "Short", "Term", "Tracks">>
MediumName == <<"Favorite", "Medium", "Term", "Tracks">>
LongName == <<"Favorite", "Long", "Term", "Tracks">>
\* a name that contains an expected name but is not one
NearMissName == <<"Favorite", "Short", "Term", "Tracks", "Old">>

\* An anchored regex ^w1 w2 ... wn$ is the sequence of the word sets it
\* accepts at each position.
shortTermRe == <<{"Favorite"}, {"Short"}, {"Term"}, {"Tracks"}>>
medTermRe == <<{"Favorite"}, {"Medium"}, {"Term"}, {"Tracks"}>>
longTermRe == <<{"Favorite"}, {"Long"}, {"Term"}, {"Tracks"}>>
plMatch == <<{"Favorite"}, {"Short", "Medium", "Long"}, {"Term"}, {"Tracks"}>>

\* (mutant) the pattern without its closing $: a prefix of the name is enough
MatchString_noEnd(re, name) ==
    /\ Len(name) >= Len(re)
    /\ \A i \in 1..Len(re) : name[i] \in re[i]

\* regexp.MatchString for an anchored pattern: the whole name is consumed.
MatchString(re, name) ==
    /\ Len(name) = Len(re)
    /\ \A i \in 1..Len(re) : name[i] \in re[i]

\* ------------------------------------------------------------ the remote
\* spotify.ID: playlist ids are 1, 2, ... in creation order; 0 is the zero
\* value "" of an unset id.
EmptyID == 0

ShortTermRange == "short"
MediumTermRange == "medium"
LongTermRange == "long"
\* the zero value of spotify.Range
EmptyRange == ""

\* the three goroutines of the fill step, named by the config each is given
Tasks == {"short", "medium", "long"}

OldTrack == <<"old", 1>>

\* The user's top tracks for a time range, as the remote reports them.  A
\* request with the empty time range gets the API's default, medium term.
TopTracks(d) ==
    LET r == IF d = EmptyRange THEN MediumTermRange ELSE d
    IN [k \in 1..MaxTracks |-> <<r, k>>]

\* The playlists the user may own when the run starts: any at most
\* MaxPlaylists of these names, listed in this order.
InitNames == <<ShortName, MediumName, LongName, NearMissName>>

InitListings ==
    {SelectSeq(InitNames, LAMBDA n : n \in S) :
        S \in {T \in SUBSET {InitNames[i] : i \in 1..Len(InitNames)} :
                 Cardinality(T) <= MaxPlaylists}}

\* ----------------------------------------------------------------- state
VARIABLES
    args,        \* os.Args: [cmd, list, purge, fill]
    remote,      \* the user's playlists on the service: Seq of [name, id, tracks]
    exit,        \* "running", or how the process ended: "exit0", "exit1", "exit2"
    exitBy,      \* "none", or the goroutine that ended it: "main", "task", "handler", "server"
    pc,          \* position of the main goroutine
    hstate,      \* per /callback request: "idle", "sending" (blocked in ch <- client), "sent"
    lastReq,     \* the latest /callback request: its number, state parameter, exchange outcome
    createCalls, \* CreatePlaylistForUser calls issued by the latest getAutomatedPlaylists call
    created,     \* the playlists that call's create calls have appended to its list
    client,      \* main's client: 0 (none) or the request whose client it received
    allUsersPlaylists,   \* result of the last getCurrentPlaylists
    automatedPlaylists,  \* result of the last getAutomatedPlaylists
    purgeIdx,    \* index of the purge loop in automatedPlaylists
    lastPurge,   \* what the purge loop's latest purgeTracks call did and returned
    purgeFailed, \* a remote call of the purge step has failed
    cfg,         \* shortTermConfig, medTermConfig, longTermConfig
    wg,          \* the WaitGroup counter
    taskpc,      \* per goroutine: "idle", "fetch", "fill", "done", "failed", "panicking"
    page,        \* per goroutine: the fetched page's tracks
    idx,         \* per goroutine: index in page of the track being added
    retries,     \* per goroutine: sleeps so far of the backoff.Retry in progress
    okAdds       \* per goroutine: the tracks whose add call returned nil, in order

vars == <<args, remote, exit, exitBy, pc, hstate, lastReq, createCalls, created, client,
          allUsersPlaylists,
          automatedPlaylists, purgeIdx, lastPurge, purgeFailed, cfg, wg,
          taskpc, page, idx, retries, okAdds>>

mainVars == <<pc, client, allUsersPlaylists, automatedPlaylists, purgeIdx,
              lastPurge, purgeFailed, cfg>>
taskVars == <<taskpc, page, idx, retries, okAdds>>

\* the zero value of playlistConfig
ZeroConfig == [name |-> <<>>, duration |-> EmptyRange, id |-> EmptyID]

\* no request has reached /callback
NoRequest == [h |-> 0, st |-> "", exchangeOk |-> FALSE]

NoPurge == [id |-> EmptyID, listed |-> <<>>, listOk |-> TRUE, removeOk |-> TRUE, ret |-> "none"]

Init ==
    /\ \E cmd \in {"playlist", "other"}, l \in BOOLEAN, p \in BOOLEAN, f \in BOOLEAN :
          /\ cmd = "other" => ~l /\ ~p /\ ~f
          /\ args = [cmd |-> cmd, list |-> l, purge |-> p, fill |-> f]
    /\ \E names \in InitListings :
          remote = [i \in 1..Len(names) |->
                       [name |-> names[i], id |-> i, tracks |-> <<OldTrack>>]]
    /\ exit = "running"
    /\ exitBy = "none"
    /\ pc = "start"
    /\ hstate = [h \in 1..MaxCallbacks |-> "idle"]
    /\ lastReq = NoRequest
    /\ createCalls = 0
    /\ created = <<>>
    /\ client = 0
    /\ allUsersPlaylists = <<>>
    /\ automatedPlaylists = <<>>
    /\ purgeIdx = 0
    /\ lastPurge = NoPurge
    /\ purgeFailed = FALSE
    /\ cfg = [t \in Tasks |-> ZeroConfig]
    /\ wg = 0
    /\ taskpc = [t \in Tasks |-> "idle"]
    /\ page = [t \in Tasks |-> <<>>]
    /\ idx = [t \in Tasks |-> 0]
    /\ retries = [t \in Tasks |-> 0]
    /\ okAdds = [t \in Tasks |-> <<>>]

\* the process ends with this status, by os.Exit, log.Fatal, a panic or main's
\* return in goroutine by
Exits(status, by) == exit' = status /\ exitBy' = by

\* -------------------------------------------------------- OAuth handshake
\* the configured CSRF token (env spotify_state)
state == "csrf"

\* auth.Token: fails when the request's state differs or the code exchange fails
authToken(st, exchangeOk) == st = state /\ exchangeOk

\* (mutant) the error of auth.Token is not checked
completeAuth_tokenErrIgnored(st, exchangeOk, writeOk) ==
    IF st # state THEN "fatal"
    ELSE IF ~writeOk THEN "exit"
    ELSE "send"

\* completeAuth up to its last statement: "fatal" (log.Fatal), "exit" (os.Exit(1))
\* or "send" (it reaches ch <- client)
completeAuth(st, exchangeOk, writeOk) ==
    IF ~authToken(st, exchangeOk) THEN "fatal"
    ELSE IF st # state THEN "fatal"
    ELSE IF ~writeOk THEN "exit"
    ELSE "send"

\* http.ListenAndServe returns an error (the port is taken): log.Fatal
ListenAndServeFail ==
    /\ exit = "running"
    /\ \A h \in 1..MaxCallbacks : hstate[h] = "idle"
    /\ Exits("exit1", "server")
    /\ UNCHANGED <<args, lastReq, createCalls, created, remote, hstate, wg>>
    /\ UNCHANGED mainVars
    /\ UNCHANGED taskVars

\* openBrowser(url): log.Fatal when the browser cannot be started
OpenBrowser ==
    /\ exit = "running"
    /\ pc = "start"
    /\ \E ok \in BOOLEAN :
          IF ok THEN pc' = "waitAuth" /\ UNCHANGED <<exit, exitBy>>
          ELSE pc' = pc /\ Exits("exit1", "main")
    /\ UNCHANGED <<args, lastReq, createCalls, created, remote, hstate, wg, client, allUsersPlaylists,
                   automatedPlaylists, purgeIdx, lastPurge, purgeFailed, cfg>>
    /\ UNCHANGED taskVars

\* A request reaches /callback: the handler goroutine runs completeAuth up to
\* the channel send.  Requests are numbered in the order they arrive.
Callback(h) ==
    /\ exit = "running"
    /\ hstate[h] = "idle"
    /\ \A g \in 1..(h - 1) : hstate[g] # "idle"
    /\ \E st \in {state, "forged"}, exchangeOk \in BOOLEAN, writeOk \in BOOLEAN :
          LET out == completeAuth(st, exchangeOk, writeOk)
          IN /\ lastReq' = [h |-> h, st |-> st, exchangeOk |-> exchangeOk]
             /\ IF out = "send"
                THEN hstate' = [hstate EXCEPT ![h] = "sending"] /\ UNCHANGED <<exit, exitBy>>
                ELSE hstate' = hstate /\ Exits("exit1", "handler")
    /\ UNCHANGED <<args, createCalls, created, remote, wg>>
    /\ UNCHANGED mainVars
    /\ UNCHANGED taskVars

\* (mutant) the receive is executed wherever main is, as in a receive loop
mainAtReceive_everywhere == pc # "start"

\* the receive client := <-ch can complete: main is at it
mainAtReceive == pc = "waitAuth"

\* ch is unbuffered: the send of handler h and main's receive are one step.
\* Blocked senders are served in the order they blocked.
Handoff(h) ==
    /\ exit = "running"
    /\ hstate[h] = "sending"
    /\ \A g \in 1..(h - 1) : hstate[g] # "sending"
    /\ mainAtReceive
    /\ hstate' = [hstate EXCEPT ![h] = "sent"]
    /\ client' = h
    /\ pc' = "currentUser"
    /\ UNCHANGED <<args, lastReq, createCalls, created, remote, exit, exitBy, wg, allUsersPlaylists, automatedPlaylists,
                   purgeIdx, lastPurge, purgeFailed, cfg>>
    /\ UNCHANGED taskVars

\* ------------------------------------------------------ remote operations
\* The SimplePlaylist view of a playlist (what a listing or a create returns).
SimplePlaylist(pl) == [name |-> pl.name, id |-> pl.id]

\* getCurrentPlaylists on success: the user's playlists, in the remote's order.
\* (Every listing within MaxPlaylists + 3 is below the page limit of 50.)
getCurrentPlaylists(rem) == [i \in 1..Len(rem) |-> SimplePlaylist(rem[i])]

\* c.CreatePlaylistForUser on success: a new, empty playlist with a fresh id
CreatePlaylistForUser(rem, name) ==
    Append(rem, [name |-> name, id |-> Len(rem) + 1, tracks |-> <<>>])

playlistNames == <<ShortName, MediumName, LongName>>

\* the selection loop of getAutomatedPlaylists
foundPlaylists(playlists) ==
    SelectSeq(playlists, LAMBDA v : MatchString(plMatch, v.name))

\* (mutant) the three playlists are created whenever fewer than three names
\* of the listing match
getAutomatedPlaylists_unlessAllFound(playlists, rem, made, createOk) ==
    LET found == foundPlaylists(playlists)
    IN IF Len(found) >= 3
       THEN [ret |-> TRUE, err |-> FALSE, playlists |-> found, remote |-> rem,
             made |-> made, creates |-> 0]
       ELSE IF ~createOk
            THEN [ret |-> TRUE, err |-> TRUE, playlists |-> <<>>, remote |-> rem,
                  made |-> made, creates |-> Len(made) + 1]
            ELSE LET rem1 == CreatePlaylistForUser(rem, playlistNames[Len(made) + 1])
                     made1 == Append(made, SimplePlaylist(rem1[Len(rem1)]))
                 IN [ret |-> Len(made1) = Len(playlistNames), err |-> FALSE,
                     playlists |-> made1, remote |-> rem1,
                     made |-> made1, creates |-> Len(made1)]

\* getAutomatedPlaylists(playlists) against remote rem, up to the return of
\* its next remote call.  made: the playlists its create calls have appended
\* so far; createOk: whether the next create call succeeds.  When a listed
\* name matches, it returns the matches without any remote call.  Otherwise
\* one CreatePlaylistForUser call is made for the next of playlistNames: on
\* failure the function returns (nil, err); on success the playlist is
\* appended, and after the last name the function returns the list.
\* Result: whether the function has returned (ret), with an error (err), the
\* list returned, the remote, the appended playlists and the number of
\* create calls issued so far.
getAutomatedPlaylists(playlists, rem, made, createOk) ==
    LET found == foundPlaylists(playlists)
    IN IF Len(found) # 0
       THEN [ret |-> TRUE, err |-> FALSE, playlists |-> found, remote |-> rem,
             made |-> made, creates |-> 0]
       ELSE IF ~createOk
            THEN [ret |-> TRUE, err |-> TRUE, playlists |-> <<>>, remote |-> rem,
                  made |-> made, creates |-> Len(made) + 1]
            ELSE LET rem1 == CreatePlaylistForUser(rem, playlistNames[Len(made) + 1])
                     made1 == Append(made, SimplePlaylist(rem1[Len(rem1)]))
                 IN [ret |-> Len(made1) = Len(playlistNames), err |-> FALSE,
                     playlists |-> made1, remote |-> rem1,
                     made |-> made1, creates |-> Len(made1)]

\* does the remote know playlist id
Exists(rem, id) == id \in 1..Len(rem)

\* c.RemoveTracksFromPlaylist on success: every occurrence of the ids is removed
RemoveTracksFromPlaylist(rem, id, ids) ==
    [rem EXCEPT ![id].tracks =
        SelectSeq(@, LAMBDA t : \A i \in 1..Len(ids) : ids[i] # t)]

\* c.AddTracksToPlaylist on success: the track is appended
AddTracksToPlaylist(rem, id, track) ==
    [rem EXCEPT ![id].tracks = Append(@, track)]

\* --------------------------------------------------------------- main flow
\* client.CurrentUser: log.Fatal on error
CurrentUser ==
    /\ exit = "running"
    /\ pc = "currentUser"
    /\ \E ok \in BOOLEAN :
          IF ok THEN pc' = "switch" /\ UNCHANGED <<exit, exitBy>>
          ELSE pc' = pc /\ Exits("exit1", "main")
    /\ UNCHANGED <<args, lastReq, createCalls, created, remote, hstate, wg, client, allUsersPlaylists,
                   automatedPlaylists, purgeIdx, lastPurge, purgeFailed, cfg>>
    /\ UNCHANGED taskVars

\* switch os.Args[1]: only "playlist" has a case
Switch ==
    /\ exit = "running"
    /\ pc = "switch"
    /\ pc' = IF args.cmd = "playlist" THEN "list" ELSE "printDone"
    /\ UNCHANGED <<args, lastReq, createCalls, created, remote, exit, exitBy, hstate, wg, client, allUsersPlaylists,
                   automatedPlaylists, purgeIdx, lastPurge, purgeFailed, cfg>>
    /\ UNCHANGED taskVars

\* if *playlistList: list and print the playlists, os.Exit(1) on error
ListAll ==
    /\ exit = "running"
    /\ pc = "list"
    /\ IF args.list
       THEN \E ok \in BOOLEAN :
               IF ok
               THEN /\ allUsersPlaylists' = getCurrentPlaylists(remote)
                    /\ pc' = "purge" /\ UNCHANGED <<exit, exitBy>>
               ELSE /\ allUsersPlaylists' = allUsersPlaylists
                    /\ pc' = pc /\ Exits("exit1", "main")
       ELSE /\ allUsersPlaylists' = allUsersPlaylists
            /\ pc' = "purge" /\ UNCHANGED <<exit, exitBy>>
    /\ UNCHANGED <<args, lastReq, createCalls, created, remote, hstate, wg, client, automatedPlaylists,
                   purgeIdx, lastPurge, purgeFailed, cfg>>
    /\ UNCHANGED taskVars

\* (mutant) --list_all also turns the purge step on
playlistPurgeFavTracks_orList == args.purge \/ args.list

\* *playlistPurgeFavTracks: the value of the --purge_fav flag
playlistPurgeFavTracks == args.purge

\* if *playlistPurgeFavTracks: getCurrentPlaylists, os.Exit(1) on error; main
\* then enters getAutomatedPlaylists, whose list of created playlists is empty
PurgeGetCurrent ==
    /\ exit = "running"
    /\ pc = "purge"
    /\ IF playlistPurgeFavTracks
       THEN \E ok \in BOOLEAN :
               IF ok
               THEN /\ allUsersPlaylists' = getCurrentPlaylists(remote)
                    /\ pc' = "purgeAuto" /\ UNCHANGED <<exit, exitBy>>
                    /\ createCalls' = 0 /\ created' = <<>>
               ELSE /\ allUsersPlaylists' = allUsersPlaylists
                    /\ pc' = pc /\ Exits("exit1", "main")
                    /\ UNCHANGED <<createCalls, created>>
       ELSE /\ allUsersPlaylists' = allUsersPlaylists
            /\ pc' = "fill" /\ UNCHANGED <<exit, exitBy, createCalls, created>>
    /\ UNCHANGED <<args, lastReq, remote, hstate, wg, client, automatedPlaylists,
                   purgeIdx, lastPurge, purgeFailed, cfg>>
    /\ UNCHANGED taskVars

\* getAutomatedPlaylists of the purge step, one remote call at a time: main
\* stays in the function until it returns; os.Exit(1) on error
PurgeGetAutomated ==
    /\ exit = "running"
    /\ pc = "purgeAuto"
    /\ \E createOk \in BOOLEAN :
          LET r == getAutomatedPlaylists(allUsersPlaylists, remote, created, createOk)
          IN /\ remote' = r.remote
             /\ createCalls' = r.creates
             /\ created' = r.made
             /\ IF r.err
                THEN /\ Exits("exit1", "main") /\ pc' = pc
                     /\ UNCHANGED <<automatedPlaylists, purgeIdx>>
                ELSE IF r.ret
                THEN /\ UNCHANGED <<exit, exitBy>> /\ pc' = "purgeLoop"
                     /\ automatedPlaylists' = r.playlists
                     /\ purgeIdx' = 1
                ELSE /\ pc' = pc
                     /\ UNCHANGED <<exit, exitBy, automatedPlaylists, purgeIdx>>
    /\ UNCHANGED <<args, lastReq, hstate, wg, client, allUsersPlaylists, lastPurge,
                   purgeFailed, cfg>>
    /\ UNCHANGED taskVars

\* (mutant) the purge loop is left after its first iteration
purgeLoopOver_afterFirst(i, playlists) == i > 1

\* for _, v := range automatedPlaylists: the range is exhausted
purgeLoopOver(i, playlists) == i > Len(playlists)

\* purgeTracks(playlist): the value it returns, "err" or "nil"
purgeTracksReturn(listOk, removeOk) ==
    IF ~listOk THEN "err" ELSE "nil"

\* main is inside purgeTracks, between its two remote calls
purgeTracksListed == lastPurge.ret = "pending"

\* an iteration of the purge loop up to the return of GetPlaylistItems: on
\* error purgeTracks returns it, main prints a message and the loop goes on;
\* otherwise purgeTracks collects the ids and issues the remove call
PurgeTracksList ==
    /\ exit = "running"
    /\ pc = "purgeLoop"
    /\ ~purgeLoopOver(purgeIdx, automatedPlaylists)
    /\ ~purgeTracksListed
    /\ \E listOk \in BOOLEAN :
          LET id == automatedPlaylists[purgeIdx].id
              plTrackIDs == IF listOk THEN remote[id].tracks ELSE <<>>
          IN IF listOk
             THEN /\ lastPurge' = [id |-> id, listed |-> plTrackIDs, listOk |-> TRUE,
                                   removeOk |-> FALSE, ret |-> "pending"]
                  /\ UNCHANGED <<purgeIdx, purgeFailed>>
             ELSE /\ lastPurge' = [id |-> id, listed |-> plTrackIDs, listOk |-> FALSE,
                                   removeOk |-> FALSE,
                                   ret |-> purgeTracksReturn(FALSE, FALSE)]
                  /\ purgeFailed' = TRUE
                  /\ purgeIdx' = purgeIdx + 1
    /\ UNCHANGED <<args, lastReq, createCalls, created, remote, exit, exitBy, pc, hstate, wg, client,
                   allUsersPlaylists, automatedPlaylists, cfg>>
    /\ UNCHANGED taskVars

\* the rest of the iteration: RemoveTracksFromPlaylist returns, its error is
\* assigned and purgeTracks returns nil; the loop goes on
PurgeTracksRemove ==
    /\ exit = "running"
    /\ pc = "purgeLoop"
    /\ purgeTracksListed
    /\ \E removeOk \in BOOLEAN :
          /\ remote' = IF removeOk
                       THEN RemoveTracksFromPlaylist(remote, lastPurge.id, lastPurge.listed)
                       ELSE remote
          /\ lastPurge' = [lastPurge EXCEPT !.removeOk = removeOk,
                                            !.ret = purgeTracksReturn(TRUE, removeOk)]
          /\ purgeFailed' = (purgeFailed \/ ~removeOk)
    /\ purgeIdx' = purgeIdx + 1
    /\ UNCHANGED <<args, lastReq, createCalls, created, exit, exitBy, pc, hstate, wg, client, allUsersPlaylists,
                   automatedPlaylists, cfg>>
    /\ UNCHANGED taskVars

\* the purge loop ends, and with it the scope of the last purgeTracks result
PurgeEnd ==
    /\ exit = "running"
    /\ pc = "purgeLoop"
    /\ purgeLoopOver(purgeIdx, automatedPlaylists)
    /\ pc' = "fill"
    /\ lastPurge' = NoPurge
    /\ UNCHANGED <<args, lastReq, createCalls, created, remote, exit, exitBy, hstate, wg, client, allUsersPlaylists,
                   automatedPlaylists, purgeIdx, purgeFailed, cfg>>
    /\ UNCHANGED taskVars

\* ---------------------------------------------------------------- the fill
\* the playlistConfig literal main builds from a found playlist
playlistConfig(v, duration) == [name |-> v.name, duration |-> duration, id |-> v.id]

\* the config loop of main: each playlist whose name matches re overwrites the
\* config, starting from the zero value
RECURSIVE configFor(_, _, _, _)
configFor(playlists, i, re, duration) ==
    IF i = 0 THEN ZeroConfig
    ELSE IF MatchString(re, playlists[i].name)
         THEN playlistConfig(playlists[i], duration)
         ELSE configFor(playlists, i - 1, re, duration)

buildConfigs(playlists) ==
    [t \in Tasks |->
        CASE t = "short" -> configFor(playlists, Len(playlists), shortTermRe, ShortTermRange)
          [] t = "medium" -> configFor(playlists, Len(playlists), medTermRe, MediumTermRange)
          [] t = "long" -> configFor(playlists, Len(playlists), longTermRe, LongTermRange)]

\* (mutant) the counter is raised by one more than goroutines are started
wgAdd_oneTooMany == 3 + 1

\* wg.Add(3)
wgAdd == 3

\* (mutant) Wait returns while one goroutine has not called Done
wgWaitReturns_early(w) == w <= 1

\* wg.Wait() returns
wgWaitReturns(w) == w = 0

\* if *playlistFill: getCurrentPlaylists, os.Exit(1) on error; main then
\* enters getAutomatedPlaylists, whose list of created playlists is empty
FillGetCurrent ==
    /\ exit = "running"
    /\ pc = "fill"
    /\ IF args.fill
       THEN \E ok \in BOOLEAN :
               IF ok
               THEN /\ allUsersPlaylists' = getCurrentPlaylists(remote)
                    /\ pc' = "fillAuto" /\ UNCHANGED <<exit, exitBy>>
                    /\ createCalls' = 0 /\ created' = <<>>
               ELSE /\ allUsersPlaylists' = allUsersPlaylists
                    /\ pc' = pc /\ Exits("exit1", "main")
                    /\ UNCHANGED <<createCalls, created>>
       ELSE /\ allUsersPlaylists' = allUsersPlaylists
            /\ pc' = "printDone" /\ UNCHANGED <<exit, exitBy, createCalls, created>>
    /\ UNCHANGED <<args, lastReq, remote, hstate, wg, client, automatedPlaylists,
                   purgeIdx, lastPurge, purgeFailed, cfg>>
    /\ UNCHANGED taskVars

\* getAutomatedPlaylists of the fill step, one remote call at a time
\* (os.Exit(1) on error), and on its return the three
\* configs, wg.Add(3) and the three go statements
FillGetAutomated ==
    /\ exit = "running"
    /\ pc = "fillAuto"
    /\ \E createOk \in BOOLEAN :
          LET r == getAutomatedPlaylists(allUsersPlaylists, remote, created, createOk)
          IN /\ remote' = r.remote
             /\ createCalls' = r.creates
             /\ created' = r.made
             /\ IF r.err
                THEN /\ Exits("exit1", "main") /\ pc' = pc
                     /\ UNCHANGED <<automatedPlaylists, cfg, wg, taskpc>>
                ELSE IF ~r.ret
                THEN /\ pc' = pc
                     /\ UNCHANGED <<exit, exitBy, automatedPlaylists, cfg, wg, taskpc>>
                ELSE /\ UNCHANGED <<exit, exitBy>> /\ pc' = "wait"
                     /\ automatedPlaylists' = r.playlists
                     /\ cfg' = buildConfigs(r.playlists)
                     /\ wg' = wgAdd
                     /\ taskpc' = [t \in Tasks |-> "fetch"]
    /\ UNCHANGED <<args, lastReq, hstate, client, allUsersPlaylists, purgeIdx, lastPurge,
                   purgeFailed, page, idx, retries, okAdds>>

\* wg.Wait() returns
WgWait ==
    /\ exit = "running"
    /\ pc = "wait"
    /\ wgWaitReturns(wg)
    /\ pc' = "printDone"
    /\ UNCHANGED <<args, lastReq, createCalls, created, remote, exit, exitBy, hstate, wg, client, allUsersPlaylists,
                   automatedPlaylists, purgeIdx, lastPurge, purgeFailed, cfg>>
    /\ UNCHANGED taskVars

\* main prints "Done!" and returns: the process ends with status 0
MainReturn ==
    /\ exit = "running"
    /\ pc = "printDone"
    /\ pc' = "done"
    /\ Exits("exit0", "main")
    /\ UNCHANGED <<args, lastReq, createCalls, created, remote, hstate, wg, client, allUsersPlaylists,
                   automatedPlaylists, purgeIdx, lastPurge, purgeFailed, cfg>>
    /\ UNCHANGED taskVars

\* ------------------------------------------------------ the fill goroutines
\* getTopTracks and the start of getTopTracksAndFill.  outcome "err": the
\* remote call failed; "nil": it gave no page and no error; "page": a page.
\* The deferred wg.Done() runs when getTopTracksAndFill returns or panics.
GetTopTracks(t) ==
    /\ exit = "running"
    /\ taskpc[t] = "fetch"
    /\ \E outcome \in {"err", "nil", "page"} :
          CASE outcome = "err" ->
                 /\ taskpc' = [taskpc EXCEPT ![t] = "failed"]
                 /\ wg' = wg - 1
                 /\ UNCHANGED <<page, idx>>
            [] outcome = "nil" ->
                 /\ taskpc' = [taskpc EXCEPT ![t] = "panicking"]
                 /\ wg' = wg - 1
                 /\ UNCHANGED <<page, idx>>
            [] outcome = "page" ->
                 /\ taskpc' = [taskpc EXCEPT ![t] = "fill"]
                 /\ page' = [page EXCEPT ![t] = TopTracks(cfg[t].duration)]
                 /\ idx' = [idx EXCEPT ![t] = 1]
                 /\ wg' = wg
    /\ UNCHANGED <<args, lastReq, createCalls, created, remote, exit, exitBy, hstate, retries, okAdds>>
    /\ UNCHANGED mainVars

\* backoff.Retry after one call of op: "ok" (op returned nil: Retry returns
\* nil), "giveup" (op failed and NextBackOff returned Stop: Retry returns the
\* error), "retry" (op failed: sleep, then call op again).  stop: the default
\* MaxElapsedTime of NewExponentialBackOff has passed.
backoffRetry(callOk, stop) ==
    IF callOk THEN "ok"
    ELSE IF stop THEN "giveup"
    ELSE "retry"

\* one call of op inside backoff.Retry, in fillPlaylist's loop over page.Tracks
AddTrack(t) ==
    /\ exit = "running"
    /\ taskpc[t] = "fill"
    /\ idx[t] <= Len(page[t])
    /\ \E callOk \in {b \in BOOLEAN : b => Exists(remote, cfg[t].id)},
          stop \in {b \in BOOLEAN : retries[t] >= MaxRetries => b} :
          LET track == page[t][idx[t]]
              out == backoffRetry(callOk, stop)
          IN /\ remote' = IF callOk THEN AddTracksToPlaylist(remote, cfg[t].id, track)
                          ELSE remote
             /\ okAdds' = IF callOk THEN [okAdds EXCEPT ![t] = Append(@, track)]
                          ELSE okAdds
             /\ CASE out = "ok" ->
                       /\ idx' = [idx EXCEPT ![t] = @ + 1]
                       /\ retries' = [retries EXCEPT ![t] = 0]
                       /\ UNCHANGED <<taskpc, wg>>
                  [] out = "giveup" ->
                       /\ taskpc' = [taskpc EXCEPT ![t] = "failed"]
                       /\ wg' = wg - 1
                       /\ retries' = [retries EXCEPT ![t] = 0]
                       /\ UNCHANGED idx
                  [] out = "retry" ->
                       /\ retries' = [retries EXCEPT ![t] = @ + 1]
                       /\ UNCHANGED <<idx, taskpc, wg>>
    /\ UNCHANGED <<args, lastReq, createCalls, created, exit, exitBy, hstate, page>>
    /\ UNCHANGED mainVars

\* fillPlaylist's loop is over: it returns nil, and so does getTopTracksAndFill
FillReturn(t) ==
    /\ exit = "running"
    /\ taskpc[t] = "fill"
    /\ idx[t] > Len(page[t])
    /\ taskpc' = [taskpc EXCEPT ![t] = "done"]
    /\ wg' = wg - 1
    /\ UNCHANGED <<args, lastReq, createCalls, created, remote, exit, exitBy, hstate, page, idx, retries, okAdds>>
    /\ UNCHANGED mainVars

\* the goroutine got an error from getTopTracksAndFill: it prints it, os.Exit(1)
TaskExit(t) ==
    /\ exit = "running"
    /\ taskpc[t] = "failed"
    /\ Exits("exit1", "task")
    /\ UNCHANGED <<args, lastReq, createCalls, created, remote, hstate, wg>>
    /\ UNCHANGED mainVars
    /\ UNCHANGED taskVars

\* the nil page is dereferenced in fillPlaylist: the panic ends the process
TaskPanic(t) ==
    /\ exit = "running"
    /\ taskpc[t] = "panicking"
    /\ Exits("exit2", "task")
    /\ UNCHANGED <<args, lastReq, createCalls, created, remote, hstate, wg>>
    /\ UNCHANGED mainVars
    /\ UNCHANGED taskVars

\* ------------------------------------------------------ the specification
Next ==
    \/ ListenAndServeFail
    \/ OpenBrowser
    \/ \E h \in 1..MaxCallbacks : Callback(h)
    \/ \E h \in 1..MaxCallbacks : Handoff(h)
    \/ CurrentUser
    \/ Switch
    \/ ListAll
    \/ PurgeGetCurrent
    \/ PurgeGetAutomated
    \/ PurgeTracksList
    \/ PurgeTracksRemove
    \/ PurgeEnd
    \/ FillGetCurrent
    \/ FillGetAutomated
    \/ WgWait
    \/ MainReturn
    \/ \E t \in Tasks : GetTopTracks(t)
    \/ \E t \in Tasks : AddTrack(t)
    \/ \E t \in Tasks : FillReturn(t)
    \/ \E t \in Tasks : TaskExit(t)
    \/ \E t \in Tasks : TaskPanic(t)

Spec == Init /\ [][Next]_vars

\* The Go scheduler runs every runnable goroutine: a goroutine of the fill
\* step whose remote call returns takes its next step, and main leaves
\* wg.Wait() once the counter is zero.
Fairness ==
    /\ WF_vars(WgWait)
    /\ WF_vars(MainReturn)
    /\ \A t \in Tasks :
          /\ WF_vars(GetTopTracks(t))
          /\ WF_vars(AddTrack(t))
          /\ WF_vars(FillReturn(t))
          /\ WF_vars(TaskExit(t))
          /\ WF_vars(TaskPanic(t))

FairSpec == Spec /\ Fairness

\* ------------------------------------------------------------- the claims
FillRun == args.cmd = "playlist" /\ args.fill

\* getTopTracksAndFill of goroutine t has returned (or panicked)
Finished(t) == taskpc[t] \in {"done", "failed", "panicking"}
Running(t) == taskpc[t] \in {"fetch", "fill"}

\* fillPlaylist of goroutine t has returned an error
FillError(t) == taskpc[t] = "failed" /\ idx[t] > 0

\* C1 as stated: in a --fill run the process never exits, by main's return
\* or by an os.Exit of main or of a task's goroutine, while one of the three
\* tasks is still running.
C1_NoExitWhileTaskRuns ==
    (FillRun /\ exitBy \in {"main", "task"}) => \A t \in Tasks : ~Running(t)

\* C1 amended: in a --fill run the process does not exit by reaching the end
\* of main before all three getTopTracksAndFill calls have returned or
\* panicked, and a task that returned nil has added its whole page.
C1_MainReturnsAfterTasks ==
    (FillRun /\ exit = "exit0") =>
        \A t \in Tasks : /\ Finished(t)
                         /\ taskpc[t] = "done" => okAdds[t] = page[t]

C1_Witness ==
    /\ FillRun /\ exit = "exit0"
    /\ \A t \in Tasks : taskpc[t] = "done" /\ Len(okAdds[t]) = MaxTracks

\* C2: in a --fill run, once a task has returned an error, main never gets
\* past wg.Wait to print "Done!" and the process never ends with status 0.
C2_TaskErrorExitsOne ==
    (\E t \in Tasks : taskpc[t] = "failed") =>
        (pc \notin {"printDone", "done"} /\ exit # "exit0")

\* C3: whenever a fill task has started, its config is populated: its id is
\* the id of an existing playlist whose name matches the task's time range,
\* and its duration is that time range.
C3_ConfigPopulated ==
    \A t \in Tasks :
        taskpc[t] # "idle" =>
            /\ cfg[t].id # EmptyID
            /\ Exists(remote, cfg[t].id)
            /\ remote[cfg[t].id].name =
                  (CASE t = "short" -> ShortName
                     [] t = "medium" -> MediumName
                     [] t = "long" -> LongName)
            /\ cfg[t].duration = t

\* C4: the playlist ids given to the three fill tasks are pairwise different.
C4_DisjointPlaylists ==
    \A t \in Tasks, u \in Tasks :
        (t # u /\ taskpc[t] # "idle" /\ taskpc[u] # "idle") => cfg[t].id # cfg[u].id

\* goroutine t's successful adds are the first idx[t] - 1 tracks of its page,
\* in page order, each once, and they are on the playlist of its config
AddsInPageOrder(t) ==
    /\ okAdds[t] = SubSeq(page[t], 1, idx[t] - 1)
    /\ okAdds[t] # <<>> =>
          /\ Exists(remote, cfg[t].id)
          /\ SelectSeq(remote[cfg[t].id].tracks,
                       LAMBDA x : x[1] = cfg[t].duration) = okAdds[t]

\* C5: adds are issued in page order, each track exactly once on
\* return nil, and after every failed attempt the add call for the same
\* track is issued again (fillPlaylist never stops at a failed attempt).
C5_RetryUntilSuccess ==
    /\ [](\A t \in Tasks : taskpc[t] # "idle" => AddsInPageOrder(t))
    /\ [][\A t \in Tasks : taskpc[t] = "fill" => taskpc'[t] \in {"fill", "done"}]_vars

\* C6: retries of the add call are unbounded: backoff.Retry returns only when
\* the add call has succeeded, so fillPlaylist never returns an error.
C6_FillNeverFails == \A t \in Tasks : ~FillError(t)

\* C7: whenever purgeTracks returned nil, the remove call succeeded and no
\* listed track id is left on the playlist.
C7_PurgeRemovesListed ==
    lastPurge.ret = "nil" =>
        /\ lastPurge.removeOk
        /\ \A i \in 1..Len(lastPurge.listed) :
              \A j \in 1..Len(remote[lastPurge.id].tracks) :
                  remote[lastPurge.id].tracks[j] # lastPurge.listed[i]

\* C8: after a remote call of the purge step has failed, the process has
\* exited: no later playlist is purged, no fill step runs.
C8_PurgeFailureEndsRun ==
    /\ [](purgeFailed => exit = "exit1")
    /\ [][purgeFailed => (purgeIdx' = purgeIdx /\ remote' = remote /\ taskpc' = taskpc)]_vars

\* C9: main is past the receive only with the client of a callback whose send
\* completed; a send completes only into main's receive, so at most one
\* callback has sent, and it is the one whose client main uses.
C9_AuthHandoff ==
    /\ pc \notin {"start", "waitAuth"} => client # 0
    /\ (\E t \in Tasks : taskpc[t] # "idle") => client # 0
    /\ \A h \in 1..MaxCallbacks : hstate[h] = "sent" <=> client = h

\* main fills with the first client while a second callback is blocked sending
C9_Witness ==
    /\ client = 1 /\ hstate[1] = "sent"
    /\ \E h \in 2..MaxCallbacks : hstate[h] = "sending"
    /\ \E t \in Tasks : taskpc[t] = "fill" /\ okAdds[t] # <<>>

\* C10: after a --fill run in which the three tasks returned nil and main
\* returned, each task's playlist holds exactly the top tracks it fetched.
C10_PlaylistsSynchronized ==
    (FillRun /\ exit = "exit0" /\ \A t \in Tasks : taskpc[t] = "done") =>
        \A t \in Tasks : /\ Exists(remote, cfg[t].id)
                         /\ remote[cfg[t].id].tracks = page[t]

\* ------------------------------------------------- name matching (C11)
\* the words playlist names are made of here
Words == {"Favorite", "favorite", "Short", "Medium", "Long", "Term", "Tracks", "Old"}

RECURSIVE NamesUpTo(_)
NamesUpTo(n) ==
    IF n = 0 THEN {<<>>}
    ELSE LET shorter == NamesUpTo(n - 1)
         IN shorter \cup {Append(w, x) : w \in {v \in shorter : Len(v) = n - 1}, x \in Words}

\* main just before getAutomatedPlaylists of a --purge_fav run, for every
\* listing made of one name of at most MaxWords words, followed by nothing, by
\* an expected name or by a near miss
InitMatch ==
    /\ args = [cmd |-> "playlist", list |-> FALSE, purge |-> TRUE, fill |-> FALSE]
    /\ \E n \in NamesUpTo(MaxWords), rest \in {<<>>, <<MediumName>>, <<NearMissName>>} :
          LET names == <<n>> \o rest
          IN remote = [i \in 1..Len(names) |->
                          [name |-> names[i], id |-> i, tracks |-> <<OldTrack>>]]
    /\ allUsersPlaylists = getCurrentPlaylists(remote)
    /\ exit = "running"
    /\ exitBy = "none"
    /\ pc = "purgeAuto"
    /\ hstate = [h \in 1..MaxCallbacks |-> IF h = 1 THEN "sent" ELSE "idle"]
    /\ lastReq = [h |-> 1, st |-> state, exchangeOk |-> TRUE]
    /\ createCalls = 0
    /\ created = <<>>
    /\ client = 1
    /\ automatedPlaylists = <<>>
    /\ purgeIdx = 0
    /\ lastPurge = NoPurge
    /\ purgeFailed = FALSE
    /\ cfg = [t \in Tasks |-> ZeroConfig]
    /\ wg = 0
    /\ taskpc = [t \in Tasks |-> "idle"]
    /\ page = [t \in Tasks |-> <<>>]
    /\ idx = [t \in Tasks |-> 0]
    /\ retries = [t \in Tasks |-> 0]
    /\ okAdds = [t \in Tasks |-> <<>>]

NextMatch ==
    \/ PurgeGetAutomated
    \/ \E h \in 1..MaxCallbacks : Callback(h)

SpecMatch == InitMatch /\ [][NextMatch]_vars

ExpectedNames == {ShortName, MediumName, LongName}

\* C11: plMatch matches a listed name iff it is one of the three expected
\* names, iff exactly one of shortTermRe, medTermRe, longTermRe matches it; and
\* what getAutomatedPlaylists takes from the listing is exactly the listed
\* playlists with an expected name, in listing order.
C11_MatchesExactlyThreeNames ==
    /\ \A i \in 1..Len(allUsersPlaylists) :
          LET n == allUsersPlaylists[i].name
          IN /\ MatchString(plMatch, n) <=> n \in ExpectedNames
             /\ MatchString(plMatch, n) <=>
                   Cardinality({re \in {shortTermRe, medTermRe, longTermRe} :
                                   MatchString(re, n)}) = 1
    /\ pc = "purgeLoop" =>
          LET listed == SelectSeq(allUsersPlaylists, LAMBDA v : v.name \in ExpectedNames)
              taken == SelectSeq(automatedPlaylists, LAMBDA v : v.id <= Len(allUsersPlaylists))
          IN /\ taken = listed
             /\ listed # <<>> => automatedPlaylists = listed

\* the listing holds an expected name and a near miss: only the first is taken
C11_Witness ==
    /\ pc = "purgeLoop"
    /\ Len(allUsersPlaylists) = 2
    /\ allUsersPlaylists[1].name = ShortName
    /\ allUsersPlaylists[2].name = NearMissName
    /\ automatedPlaylists = <<allUsersPlaylists[1]>>

\* ------------------------------------------------------------------ C12
\* the latest callback request carried a wrong state or its exchange failed
BadRequest == lastReq.h # 0 /\ (lastReq.st # state \/ ~lastReq.exchangeOk)

\* C12: once completeAuth has handled a request with a wrong state parameter
\* or a failed token exchange, the process has been ended by the handler with
\* status 1, that request never sent on the channel, and main does not hold
\* its client.
C12_BadCallbackNeverHandsOver ==
    BadRequest =>
        /\ exit = "exit1" /\ exitBy = "handler"
        /\ hstate[lastReq.h] = "idle"
        /\ client # lastReq.h

\* a forged second callback ends the run while main fills with the first client
C12_Witness ==
    /\ BadRequest /\ lastReq.h = 2 /\ lastReq.st # state
    /\ client = 1 /\ exit = "exit1"
    /\ \E t \in Tasks : taskpc[t] = "fill"

\* ------------------------------------------------------------------ C13
\* main has not yet reached the go statements of the fill step
BeforeFillTasks ==
    pc \in {"start", "waitAuth", "currentUser", "switch", "list", "purge",
            "purgeAuto", "purgeLoop", "fill", "fillAuto"}

\* C13: while main is at or before the purge step no fill task has started,
\* fetched or added anything; and in a --purge_fav --fill run, once a fill
\* task has started the purge loop has gone through every automated playlist
\* and each of its purgeTracks calls has returned.
C13_PurgeBeforeFill ==
    /\ BeforeFillTasks =>
          \A t \in Tasks : taskpc[t] = "idle" /\ page[t] = <<>> /\ okAdds[t] = <<>>
    /\ (args.purge /\ \E t \in Tasks : taskpc[t] # "idle") =>
          /\ purgeIdx = Len(automatedPlaylists) + 1
          /\ lastPurge = NoPurge

\* a --purge_fav --fill run that purged three playlists and is now adding
C13_Witness ==
    /\ args.purge /\ args.fill
    /\ purgeIdx = 4
    /\ \A i \in 1..Len(remote) : Len(remote[i].tracks) <= 1
    /\ \E t \in Tasks : taskpc[t] = "fill" /\ okAdds[t] # <<>>

\* ------------------------------------------------------------------ C14
\* main is past a getAutomatedPlaylists call and allUsersPlaylists is still
\* the listing that call was given
AfterAuto ==
    \/ pc = "purgeLoop"
    \/ pc = "fill" /\ args.purge
    \/ pc = "wait"
    \/ pc \in {"printDone", "done"} /\ args.cmd = "playlist" /\ (args.purge \/ args.fill)
    \/ pc \in {"purgeAuto", "fillAuto"} /\ exitBy = "main"

\* the remote playlists that are not in the listing: those the call created
CreatedByCall == SubSeq(remote, Len(allUsersPlaylists) + 1, Len(remote))

\* the latest getAutomatedPlaylists call returned an error
CreateFailed == pc \in {"purgeAuto", "fillAuto"} /\ exitBy = "main"

\* main is inside a getAutomatedPlaylists call (or the process ended there)
DuringAuto == pc \in {"purgeAuto", "fillAuto"}

\* C14: during and after a getAutomatedPlaylists call, no created playlist
\* bears a name of the listing; create calls are issued only if no listed name
\* is one of the three names; the created playlists are named Short, Medium,
\* Long in this order, one per call that succeeded, and they are the ones the
\* function has appended to its list.  After the call: a call without a
\* failing create issued none or exactly three and returned the three created
\* playlists; a failing create is the last call issued, the caller got an
\* error and no list, so main exits with status 1 before any purge or fill.
C14_CreatesOnlyWhenNoneListed ==
    /\ (DuringAuto \/ AfterAuto) =>
          /\ \A k \in 1..Len(CreatedByCall) :
                /\ CreatedByCall[k].name = playlistNames[k]
                /\ \A j \in 1..Len(allUsersPlaylists) :
                      allUsersPlaylists[j].name # CreatedByCall[k].name
          /\ created = [k \in 1..Len(CreatedByCall) |-> SimplePlaylist(CreatedByCall[k])]
          /\ createCalls = Len(created) + (IF CreateFailed THEN 1 ELSE 0)
          /\ createCalls \in 0..3
          /\ createCalls # 0 =>
                \A j \in 1..Len(allUsersPlaylists) :
                   allUsersPlaylists[j].name \notin ExpectedNames
    /\ AfterAuto =>
          /\ createCalls = 0 =>
                \E j \in 1..Len(allUsersPlaylists) :
                   allUsersPlaylists[j].name \in ExpectedNames
          /\ IF CreateFailed
             THEN /\ createCalls \in 1..3
                  /\ exit = "exit1"
                  /\ purgeIdx = 0 \/ pc = "fillAuto"
                  /\ \A t \in Tasks : taskpc[t] = "idle"
             ELSE /\ createCalls \in {0, 3}
                  /\ createCalls = 3 => automatedPlaylists = created

\* a listing without any of the three names: three playlists were created, in order
C14_Witness ==
    /\ pc = "purgeLoop" /\ createCalls = 3
    /\ Len(allUsersPlaylists) = 1 /\ allUsersPlaylists[1].name = NearMissName
    /\ Len(remote) = 4
    /\ [k \in 1..3 |-> remote[k + 1].name] = playlistNames

\* ------------------------------------------------------------------ C15
\* the wait-group counter is the number of goroutines still in getTopTracksAndFill
WgBalanced ==
    /\ wg >= 0
    /\ (\E t \in Tasks : taskpc[t] # "idle") =>
          wg = Cardinality({t \in Tasks : Running(t)})

\* a step changes the counter only by wg.Add(3) in main or by the single
\* Done of a goroutine whose getTopTracksAndFill ends in this step
WgDoneOnce ==
    /\ \A t \in Tasks : (Running(t) /\ Finished(t)') => wg' = wg - 1
    /\ wg' # wg =>
          \/ pc = "fillAuto" /\ pc' = "wait" /\ wg = 0 /\ wg' = 3
          \/ \E t \in Tasks :
                /\ Running(t) /\ Finished(t)'
                /\ \A u \in Tasks \ {t} : taskpc'[u] = taskpc[u]
                /\ wg' = wg - 1

\* C15: in a --fill run the counter never goes below zero and equals the
\* number of goroutines that have not yet returned; every goroutine calls
\* Done exactly once, on the step that ends its getTopTracksAndFill, whether
\* it returns nil, a fetch error or a fill error; and once main is in
\* wg.Wait() the run eventually terminates.
C15_WaitGroupTerminates ==
    /\ []WgBalanced
    /\ [][WgDoneOnce]_vars
    /\ (pc = "wait" ~> exit # "running")

\* a --fill run in which the three goroutines returned nil and main returned
C15_Witness ==
    /\ args.fill /\ pc = "done" /\ exit = "exit0" /\ wg = 0
    /\ \A t \in Tasks : taskpc[t] = "done" /\ okAdds[t] = page[t] /\ page[t] # <<>>

\* ------------------------------------------------------------------ C16
\* the playlist subcommand with neither --purge_fav nor --fill
ReadOnlyRun == args.cmd = "playlist" /\ ~args.purge /\ ~args.fill

\* C16: in a run of the playlist subcommand with only --list_all, or with no
\* flag, no step changes the remote: no playlist is created and no track is
\* added or removed; no create call is issued, no purgeTracks call is made
\* and no fill goroutine is started.
C16_ListOnlyLeavesRemote ==
    /\ [][ReadOnlyRun => remote' = remote]_vars
    /\ [](ReadOnlyRun =>
             /\ createCalls = 0 /\ lastPurge = NoPurge /\ purgeIdx = 0
             /\ \A t \in Tasks : taskpc[t] = "idle" /\ okAdds[t] = <<>>)

\* a --list_all run that listed two playlists and returned
C16_Witness ==
    /\ ReadOnlyRun /\ args.list
    /\ pc = "done" /\ exit = "exit0"
    /\ Len(allUsersPlaylists) = 2 /\ allUsersPlaylists = getCurrentPlaylists(remote)

\* ------------------------------------------------------------------ C17
\* C17: no goroutine passes a nil page to fillPlaylist, that is, none ever
\* ranges over the Tracks of a nil page.
C17_PageNeverNil ==
    \A t \in Tasks : taskpc[t] # "panicking"

====
